---- MODULE Spec2Model ----
(***************************************************************************)
(* Model of Hurricane-Data.py: the HURDAT2 reader, the track metrics, the  *)
(* quadrant classification and the interactive main program.               *)
(*                                                                         *)
(* Conventions.  A Python list is a sequence; Python's negative indices    *)
(* are kept (PyIdx).  A call that can raise returns Ok(v) or Raise(e).     *)
(* Text fields of a line are strings; the conversions int(), float(),      *)
(* strptime() and str() are tables over the strings the model's files use, *)
(* and raise ValueError on anything else.  A float is modelled exactly: a  *)
(* coordinate in tenths of a degree, a speed as a fraction <<num, den>>.   *)
(***************************************************************************)
EXTENDS Integers, Sequences, FiniteSets, TLC

VARIABLES
    call,           \* function harness: the function applied and its arguments
    ret,            \* function harness: what the call returned or raised
    pc,             \* main program: position in __main__
    fin,            \* the open file: its lines, each a tuple of fields
    fpos,           \* number of lines readline() has consumed from fin
    blocks,         \* the storm blocks the dataset file was written from
    storm,          \* the storm the last read_n_parse_a_storm returned
    nread,          \* number of storms returned so far by sequential reads
    all_storm,      \* the rows of every storm read so far
    storm_details_flag,
    summary_by_year_flag,
    single_storm_flag,
    lookup_ID,      \* the storm ID typed at the second prompt
    storm_correct,
    storm_total,
    storm_accuracy_rate,
    last,           \* (correct, total) of the last storm classified
    report,         \* the last storm_report printed
    printed,        \* the set of lines printed so far
    exc             \* the uncaught exception that ended the program, or "none"

vars == <<call, ret, pc, fin, fpos, blocks, storm, nread, all_storm,
          storm_details_flag, summary_by_year_flag, single_storm_flag, lookup_ID,
          storm_correct, storm_total, storm_accuracy_rate, last, report, printed,
          exc>>

----------------------------------------------------------------------------
(* Bounds of the model *)

MaxObs == 3          \* longest storm handed to the per-storm functions
MaxDegree == 800     \* degree_normalized is applied to -MaxDegree..MaxDegree
MaxStorms == 2       \* most storm blocks in a dataset file
MaxCount == 2        \* most data lines a header declares

----------------------------------------------------------------------------
(* Python values *)

Ok(v) == [ok |-> TRUE, val |-> v]
Raise(e) == [ok |-> FALSE, exc |-> e]

\* row[i] with Python's indexing: 0-based, negative from the end
PyIdx(row, i) == IF i < 0 THEN row[Len(row) + i + 1] ELSE row[i + 1]

Max2(a, b) == IF a >= b THEN a ELSE b

\* range(n) as the indices 1..n of a sequence; empty when n <= 0
PyRange(n) == 1..(IF n < 0 THEN 0 ELSE n)
Abs(x) == IF x < 0 THEN -x ELSE x

\* int(s) for the numerals that occur in the model's files
IntTable ==
    [s \in {"-999", "-99", "0", "1", "2", "3", "4", "10", "20", "30", "40", "80", "90"} |->
        CASE s = "-999" -> -999 [] s = "-99" -> -99 [] s = "0" -> 0
          [] s = "1" -> 1 [] s = "2" -> 2 [] s = "3" -> 3 [] s = "4" -> 4
          [] s = "10" -> 10 [] s = "20" -> 20 [] s = "30" -> 30 [] s = "40" -> 40
          [] s = "80" -> 80 [] s = "90" -> 90]

int(s) == IF s \in DOMAIN IntTable THEN Ok(IntTable[s]) ELSE Raise("ValueError")

----------------------------------------------------------------------------
(* flip_direction, myLatLon *)

\* faulty variant: the branch for 'W' returns 'W'
flip_direction_west(direction) ==
    IF direction = "E" THEN Ok("W")
    ELSE IF direction = "W" THEN Ok("W")
    ELSE IF direction = "N" THEN Ok("S")
    ELSE IF direction = "S" THEN Ok("N")
    ELSE Raise("ValueError")

flip_direction(direction) ==
    IF direction = "E" THEN Ok("W")
    ELSE IF direction = "W" THEN Ok("E")
    ELSE IF direction = "N" THEN Ok("S")
    ELSE IF direction = "S" THEN Ok("N")
    ELSE Raise("ValueError")

\* A coordinate string: the float its digits spell, in tenths of a degree,
\* and its last character when that is a letter ("" when it is a digit).
CoordTable ==
    [s \in {"45.1N", "15.1", "28.0N", "29.0N", "28.0S", "2.0E", "358.0W", "2.0W",
            "358.0E", "94.8W", "95.8W", "180.0W", "180.0E", "178.0E", "182.0W",
            "265.2E", "68.0", "190.0", "200.0N", "160.0N", "0.0E", "360.0W"} |->
        CASE s = "45.1N" -> <<451, "N">> [] s = "15.1" -> <<151, "">>
          [] s = "28.0N" -> <<280, "N">> [] s = "29.0N" -> <<290, "N">>
          [] s = "28.0S" -> <<280, "S">>
          [] s = "2.0E" -> <<20, "E">> [] s = "358.0W" -> <<3580, "W">>
          [] s = "2.0W" -> <<20, "W">> [] s = "358.0E" -> <<3580, "E">>
          [] s = "94.8W" -> <<948, "W">> [] s = "95.8W" -> <<958, "W">>
          [] s = "180.0W" -> <<1800, "W">> [] s = "180.0E" -> <<1800, "E">>
          [] s = "178.0E" -> <<1780, "E">> [] s = "182.0W" -> <<1820, "W">>
          [] s = "265.2E" -> <<2652, "E">>
          [] s = "68.0" -> <<680, "">> [] s = "190.0" -> <<1900, "">>
          [] s = "200.0N" -> <<2000, "N">> [] s = "160.0N" -> <<1600, "N">>
          [] s = "0.0E" -> <<0, "E">> [] s = "360.0W" -> <<3600, "W">>]

\* str(lon_num) + lon_dir: the string that spells the number and the letter
CoordStr(num, dir) == CHOOSE s \in DOMAIN CoordTable : CoordTable[s] = <<num, dir>>

\* ev.LatLon(lat, lon): the signed position the two strings denote
\* (S and W are negative; no letter means N or E)
Signed(s) == IF CoordTable[s][2] \in {"S", "W"} THEN -CoordTable[s][1] ELSE CoordTable[s][1]
LatLon(lat, lon) == [lat |-> Signed(lat), lon |-> Signed(lon)]

myLatLon(lat, lon) ==
    IF lat \notin DOMAIN CoordTable \/ lon \notin DOMAIN CoordTable
    THEN Raise("ValueError")
    ELSE
    LET c == CoordTable[lon]
        has_dir == c[2] \in {"E", "W"}
    IN  IF ~has_dir /\ c[2] # ""
        THEN Raise("ValueError")             \* float(lon) of "200.0N"
        ELSE LET lon_num == c[1]
                 lon_dir == IF has_dir THEN c[2] ELSE ""
             IN  IF lon_num > 1800
                 THEN LET f == flip_direction(lon_dir)
                      IN  IF f.ok
                          THEN Ok(LatLon(lat, CoordStr(3600 - lon_num, f.val)))
                          ELSE f
                 ELSE Ok(LatLon(lat, lon))

----------------------------------------------------------------------------
(* degree_normalized, degree_2_quadrant *)

\* faulty variant: a degree of exactly 360 is taken as already in range
degree_normalized_upto(degree) ==
    IF degree < 0 THEN degree + 360 * (Abs(degree) \div 360)
    ELSE IF degree <= 360 THEN degree
    ELSE degree - 360 * (Abs(degree) \div 360)

degree_normalized(degree) ==
    IF degree < 0 THEN degree + 360 * (Abs(degree) \div 360)
    ELSE IF degree < 360 THEN degree
    ELSE degree - 360 * (Abs(degree) \div 360)

degree_2_quadrant(degree) ==
    IF degree < 0 THEN "NA"
    ELSE IF degree < 90 THEN "NE"
    ELSE IF degree < 180 THEN "SE"
    ELSE IF degree < 270 THEN "SW"
    ELSE IF degree < 360 THEN "NW"
    ELSE "NA"

----------------------------------------------------------------------------
(* Dates and times.  A datetime is a number of hours since 1851-06-25 00:00 *)

DateTable == [s \in {"18510625", "18510626"} |-> IF s = "18510625" THEN 0 ELSE 24]
TimeTable ==
    [s \in {"0000", "0600", "1200", "1800"} |->
        CASE s = "0000" -> 0 [] s = "0600" -> 6 [] s = "1200" -> 12 [] s = "1800" -> 18]

\* dt.datetime.strptime(date + time, '%Y%m%d%H%M')
strptime(date, time) ==
    IF date \in DOMAIN DateTable /\ time \in DOMAIN TimeTable
    THEN Ok(DateTable[date] + TimeTable[time])
    ELSE Raise("ValueError")

\* t.strftime("%Y-%m-%d")
strftime_date(t) == IF t < 24 THEN "1851-06-25" ELSE "1851-06-26"

\* t.strftime("%Y-%m-%d %H:%M")
strftime_minute(t) ==
    <<strftime_date(t),
      CASE t % 24 = 0 -> "00:00" [] t % 24 = 6 -> "06:00"
        [] t % 24 = 12 -> "12:00" [] t % 24 = 18 -> "18:00">>

hours_elapsed(t1, t2) == Abs(t2 - t1)

----------------------------------------------------------------------------
(* The geodesy library, on the flat grid of the model's positions *)

\* a.distanceTo(b), in metres: 6 nautical miles per tenth of a degree
distanceTo(a, b) == 1852 * 6 * (Abs(a.lat - b.lat) + Abs(a.lon - b.lon))

\* a.bearingTo(b): the compass bearing, ValueError when a and b coincide
bearingTo(a, b) ==
    LET north == b.lat > a.lat
        south == b.lat < a.lat
        east == b.lon > a.lon
        west == b.lon < a.lon
    IN  IF a = b THEN Raise("ValueError")
        ELSE Ok(CASE north /\ ~east /\ ~west -> 0
                  [] north /\ east -> 45
                  [] east /\ ~north /\ ~south -> 90
                  [] south /\ east -> 135
                  [] south /\ ~east /\ ~west -> 180
                  [] south /\ west -> 225
                  [] west /\ ~north /\ ~south -> 270
                  [] north /\ west -> 315)

----------------------------------------------------------------------------
(* Python values of more than one type *)

PyStr(s) == [kind |-> "str", v |-> s]
PyTime(t) == [kind |-> "datetime", v |-> t]
PyFrac(n, d) == [kind |-> "float", v |-> <<n, d>>]
PyNone == [kind |-> "None"]
PyList(l) == [kind |-> "list", v |-> l]

\* exact float arithmetic on fractions <<numerator, denominator>>
FracAdd(x, y) == <<x[1] * y[2] + y[1] * x[2], x[2] * y[2]>>
FracLess(x, y) == x[1] * y[2] < y[1] * x[2]

----------------------------------------------------------------------------
(* Track metrics.  A row is                                                *)
(* <<ID, name, datetime, flag, status, LatLon, wind, pressure, 12 radii>>  *)

RECURSIVE gmw_loop(_, _, _, _)
gmw_loop(storm_, i, highest, datetime) ==
    IF i > Len(storm_) THEN <<highest, datetime>>
    ELSE IF PyIdx(storm_[i], 6) > highest
         THEN gmw_loop(storm_, i + 1, PyIdx(storm_[i], 6), PyTime(PyIdx(storm_[i], 2)))
         ELSE gmw_loop(storm_, i + 1, highest, datetime)

get_max_wind_and_datetime(storm_) ==
    LET r == gmw_loop(storm_, 1, 0, [kind |-> "type"])
        highest == r[1]
    IN  [maxwind |-> highest,
         datetime |-> IF highest = 0 THEN PyStr("NA") ELSE r[2]]

get_count_landfall(storm_) ==
    Cardinality({i \in 1..Len(storm_) : PyIdx(storm_[i], 3) = "L"})

get_positions(storm_) == [i \in 1..Len(storm_) |-> PyIdx(storm_[i], 5)]

\* distances in nautical miles
path_distance(storm_) ==
    LET positions == get_positions(storm_)
    IN  [i \in PyRange(Len(positions) - 1) |->
            distanceTo(positions[i], positions[i + 1]) \div 1852]

\* speeds as fractions; a zero time span raises ZeroDivisionError, caught as 0
path_propagation_speed(storm_) ==
    LET timepoints == [i \in 1..Len(storm_) |-> PyIdx(storm_[i], 2)]
    IN  [i \in PyRange(Len(timepoints) - 1) |->
            LET time_span == hours_elapsed(timepoints[i], timepoints[i + 1])
            IN  IF time_span = 0 THEN <<0, 1>>
                ELSE <<path_distance(storm_)[i], time_span>>]

RECURSIVE SumSeq(_, _)
SumSeq(s_, i) == IF i > Len(s_) THEN 0 ELSE s_[i] + SumSeq(s_, i + 1)

RECURSIVE FracSum(_, _)
FracSum(s_, i) == IF i > Len(s_) THEN <<0, 1>> ELSE FracAdd(s_[i], FracSum(s_, i + 1))

\* max(list): the first greatest element, ValueError on an empty list
RECURSIVE FracMaxFrom(_, _, _)
FracMaxFrom(s_, i, best) ==
    IF i > Len(s_) THEN best
    ELSE FracMaxFrom(s_, i + 1, IF FracLess(best, s_[i]) THEN s_[i] ELSE best)

\* try: max(speeds)  except ValueError: 'NA'
max_speed_of(speeds) ==
    IF Len(speeds) = 0 THEN PyStr("NA")
    ELSE PyFrac(FracMaxFrom(speeds, 2, speeds[1])[1],
                FracMaxFrom(speeds, 2, speeds[1])[2])

\* faulty variant: the division is guarded by max(len, 1), so no segment gives 0
mean_speed_guarded(speeds) ==
    PyFrac(FracSum(speeds, 1)[1], FracSum(speeds, 1)[2] * Max2(Len(speeds), 1))

\* try: sum(speeds) / len(speeds)  except ZeroDivisionError: 'NA'
mean_speed_of(speeds) ==
    IF Len(speeds) = 0 THEN PyStr("NA")
    ELSE PyFrac(FracSum(speeds, 1)[1], FracSum(speeds, 1)[2] * Len(speeds))

storm_report(storm_) ==
    IF storm_.kind = "None" THEN Raise("TypeError")        \* storm[0] of None
    ELSE IF Len(storm_.v) = 0 THEN Raise("IndexError")     \* storm[0] of []
    ELSE
    LET st == storm_.v
        mw == get_max_wind_and_datetime(st)
        max_wind_date_time ==
            IF mw.datetime.kind = "datetime"
            THEN PyStr(strftime_minute(mw.datetime.v))
            ELSE PyStr("NA")                                \* AttributeError
        speeds == path_propagation_speed(st)
    IN  Ok([ID |-> PyIdx(st[1], 0),
            Name |-> PyIdx(st[1], 1),
            StartDate |-> strftime_date(PyIdx(st[1], 2)),
            EndDate |-> strftime_date(PyIdx(st[Len(st)], 2)),
            MaxWind |-> mw.maxwind,
            When |-> max_wind_date_time,
            NumberOfLandfalls |-> get_count_landfall(st),
            TotalDistance |-> SumSeq(path_distance(st), 1),
            MaxSpeed |-> max_speed_of(speeds),
            MeanSpeed |-> mean_speed_of(speeds)])

----------------------------------------------------------------------------
(* Quadrant classification *)

hypo_degree(positions, i) ==
    LET b == bearingTo(positions[i], positions[i + 1])
    IN  IF b.ok THEN b.val ELSE 0

hypothetical_quadrant(storm_) ==
    LET positions == get_positions(storm_)
    IN  << [i \in PyRange(Len(positions) - 1) |->
               degree_2_quadrant(degree_normalized(hypo_degree(positions, i) + 45))],
           [i \in PyRange(Len(positions) - 1) |->
               degree_2_quadrant(degree_normalized(hypo_degree(positions, i) + 90))] >>

Max4(a, b, c, d) == Max2(Max2(a, b), Max2(c, d))

\* faulty variant: the quadrants are compared with the maximum from NW to NE
RECURSIVE aq_while_from_nw(_, _)
aq_while_from_nw(row, index) ==
    IF PyIdx(row, index - 1) + PyIdx(row, index - 2)
         + PyIdx(row, index - 3) + PyIdx(row, index - 4) <= 0 /\ index > -7
    THEN LET ix == index - 4
             max_val == Max4(PyIdx(row, ix - 1), PyIdx(row, ix - 2),
                             PyIdx(row, ix - 3), PyIdx(row, ix - 4))
         IN  IF /\ PyIdx(row, ix - 1) = PyIdx(row, ix - 2)
                /\ PyIdx(row, ix - 2) = PyIdx(row, ix - 3)
                /\ PyIdx(row, ix - 3) = PyIdx(row, ix - 4)
             THEN aq_while_from_nw(row, ix)
             ELSE IF max_val = PyIdx(row, ix - 1) THEN "NW"
             ELSE IF max_val = PyIdx(row, ix - 2) THEN "SW"
             ELSE IF max_val = PyIdx(row, ix - 3) THEN "SE"
             ELSE IF max_val = PyIdx(row, ix - 4) THEN "NE"
             ELSE aq_while_from_nw(row, ix)
    ELSE "NA"

\* the while loop of actual_quadrant for one row, entered with `index`
RECURSIVE aq_while(_, _)
aq_while(row, index) ==
    IF PyIdx(row, index - 1) + PyIdx(row, index - 2)
         + PyIdx(row, index - 3) + PyIdx(row, index - 4) <= 0 /\ index > -7
    THEN LET ix == index - 4
             max_val == Max4(PyIdx(row, ix - 1), PyIdx(row, ix - 2),
                             PyIdx(row, ix - 3), PyIdx(row, ix - 4))
         IN  IF /\ PyIdx(row, ix - 1) = PyIdx(row, ix - 2)
                /\ PyIdx(row, ix - 2) = PyIdx(row, ix - 3)
                /\ PyIdx(row, ix - 3) = PyIdx(row, ix - 4)
             THEN aq_while(row, ix)
             ELSE IF max_val = PyIdx(row, ix - 4) THEN "NE"
             ELSE IF max_val = PyIdx(row, ix - 3) THEN "SE"
             ELSE IF max_val = PyIdx(row, ix - 2) THEN "SW"
             ELSE IF max_val = PyIdx(row, ix - 1) THEN "NW"
             ELSE aq_while(row, ix)
    ELSE "NA"

actual_quadrant(storm_) ==
    [i \in PyRange(Len(storm_) - 1) |-> aq_while(storm_[i + 1], 0)]

RECURSIVE ar_loop(_, _, _, _, _, _)
ar_loop(actual, hypo_lower, hypo_upper, i, Correct, Total) ==
    IF i > Len(actual) THEN <<Correct, Total>>
    ELSE IF actual[i] # "NA"
         THEN IF actual[i] = hypo_lower[i] \/ actual[i] = hypo_upper[i]
              THEN ar_loop(actual, hypo_lower, hypo_upper, i + 1, Correct + 1, Total + 1)
              ELSE ar_loop(actual, hypo_lower, hypo_upper, i + 1, Correct, Total + 1)
         ELSE ar_loop(actual, hypo_lower, hypo_upper, i + 1, Correct, Total)

\* faulty variant: the upper bound is never compared
accuracy_rate_lower_only(actual, hypo_lower, hypo_upper) ==
    ar_loop(actual, hypo_lower, hypo_lower, 1, 0, 0)

accuracy_rate(actual, hypo_lower, hypo_upper) ==
    ar_loop(actual, hypo_lower, hypo_upper, 1, 0, 0)

\* lines 404-407 of __main__: the (correct, total) of one storm
classify(storm_) ==
    accuracy_rate(actual_quadrant(storm_),
                  hypothetical_quadrant(storm_)[1],
                  hypothetical_quadrant(storm_)[2])

----------------------------------------------------------------------------
(* read_n_parse_a_storm.  A line is the tuple of its comma-separated fields, *)
(* stripped; the file object is the lines and the number consumed.          *)

\* what readline() returns at end of file: '', which splits into ['']
EOF == <<"">>

readline(lines, pos) == IF pos < Len(lines) THEN lines[pos + 1] ELSE EOF
advance(lines, pos) == IF pos < Len(lines) THEN pos + 1 ELSE pos

\* storm_ID in line: the keys and the fields of the model hold no comma and
\* no key is a proper part of a field, so a key is in a line when it is
\* empty or is one of the fields
Contains(line, key) == key = "" \/ \E i \in 1..Len(line) : line[i] = key

\* int() of each of the fields, the first ValueError if one fails
RECURSIVE ints_of(_, _)
ints_of(fields, i) ==
    IF i > Len(fields) THEN Ok(<<>>)
    ELSE LET x == int(fields[i])
         IN  IF ~x.ok THEN x
             ELSE LET rest == ints_of(fields, i + 1)
                  IN  IF rest.ok THEN Ok(<<x.val>> \o rest.val) ELSE rest

\* lines 183-190: one data line into [datetime, flag, status, LatLon, ints...]
parse_data_line(line) ==
    LET line_ready == SubSeq(line, 1, Len(line) - 1)
    IN  IF Len(line_ready) < 2 THEN Raise("ValueError")     \* strptime of '' or less
        ELSE LET t == strptime(line_ready[1], line_ready[2])
             IN  IF ~t.ok THEN t
                 ELSE IF Len(line_ready) < 6 THEN Raise("IndexError")
                 ELSE LET ll == myLatLon(line_ready[5], line_ready[6])
                          nums == ints_of(SubSeq(line_ready, 7, Len(line_ready)), 1)
                      IN  IF ~ll.ok THEN ll
                          ELSE IF ~nums.ok THEN nums
                          ELSE Ok(<<t.val, line_ready[3], line_ready[4], ll.val>> \o nums.val)

\* lines 181-192: read nr_data_lines_to_read data lines into the storm
RECURSIVE read_rows(_, _, _, _, _, _)
read_rows(lines, pos, n, storm_ID, storm_name, acc) ==
    IF n <= 0 THEN [val |-> Ok(PyList(acc)), pos |-> pos, printed |-> {}]
    ELSE LET r == parse_data_line(readline(lines, pos))
         IN  IF ~r.ok THEN [val |-> r, pos |-> advance(lines, pos), printed |-> {}]
             ELSE read_rows(lines, advance(lines, pos), n - 1, storm_ID, storm_name,
                            Append(acc, <<storm_ID, storm_name>> \o r.val))

\* faulty variant: one data line more than the header declares
parse_header_one_more(header_split) ==
    IF Len(header_split) < 3 THEN Raise("IndexError")
    ELSE LET n == int(header_split[3])
         IN  IF n.ok THEN Ok([name |-> header_split[2], count |-> n.val + 1]) ELSE n

\* lines 161-164 and 172-174: the name and the count of a header line
parse_header(header_split) ==
    IF Len(header_split) < 3 THEN Raise("IndexError")
    ELSE LET n == int(header_split[3])
         IN  IF n.ok THEN Ok([name |-> header_split[2], count |-> n.val]) ELSE n

NotFoundMessage == "Cannot find a storm with ID. Please check if the storm ID is correct."

\* faulty variant: only the identifier field of a line is compared with the key
RECURSIVE scan_first_field(_, _, _)
scan_first_field(lines, pos, storm_ID) ==
    IF readline(lines, pos)[1] = storm_ID THEN pos + 1
    ELSE IF readline(lines, pos) = EOF THEN Len(lines) + 1
    ELSE scan_first_field(lines, pos + 1, storm_ID)

\* lines 168-180: the position of the first line from pos on that contains
\* storm_ID, or Len(lines) + 1 when the end of file comes first
RECURSIVE scan(_, _, _)
scan(lines, pos, storm_ID) ==
    IF Contains(readline(lines, pos), storm_ID) THEN pos + 1
    ELSE IF readline(lines, pos) = EOF THEN Len(lines) + 1
    ELSE scan(lines, pos + 1, storm_ID)

\* storm_ID is PyNone (sequential) or PyStr(key) (lookup)
read_n_parse_a_storm(lines, pos, storm_ID) ==
    IF storm_ID.kind = "None"
    THEN LET line == readline(lines, pos)
         IN  IF line # EOF
             THEN LET h == parse_header(line)
                  IN  IF ~h.ok
                      THEN [val |-> h, pos |-> advance(lines, pos), printed |-> {}]
                      ELSE read_rows(lines, advance(lines, pos), h.val.count,
                                     line[1], h.val.name, <<>>)
             ELSE [val |-> Ok(PyNone), pos |-> pos, printed |-> {}]
    ELSE LET at == scan(lines, pos, storm_ID.v)
             line == readline(lines, at - 1)
         IN  IF Contains(line, storm_ID.v)
             THEN LET h == parse_header(line)
                  IN  IF ~h.ok
                      THEN [val |-> h, pos |-> advance(lines, at - 1), printed |-> {}]
                      ELSE read_rows(lines, advance(lines, at - 1), h.val.count,
                                     storm_ID.v, h.val.name, <<>>)
             ELSE [val |-> Ok(PyNone), pos |-> Len(lines), printed |-> {NotFoundMessage}]

----------------------------------------------------------------------------
(* The functions applied to bounded inputs *)

Pos1 == [lat |-> 280, lon |-> -948]
Pos2 == [lat |-> 290, lon |-> -948]
Pos3 == [lat |-> 290, lon |-> -958]
Positions == {Pos1, Pos2, Pos3}
\* with Pos4 the segments between the positions take all eight bearings
Pos4 == [lat |-> 280, lon |-> -958]
TrackPositions == Positions \cup {Pos4}

NoRadii == <<-999, -999, -999, -999>>

\* the four extents NE, SE, SW, NW of one wind-radius tier
TierSet ==
    { NoRadii, <<0, 0, 0, 0>>, <<30, 30, 30, 30>>, <<30, 20, 10, 0>>,
      <<0, 30, 0, 0>>, <<10, 20, 30, 20>>, <<10, 0, 0, 30>>,
      <<20, 30, 30, 10>>, <<30, 10, 10, 30>> }

\* the twelve radii 34-kt, 50-kt, 64-kt of the storms that are classified
RadiiSet ==
    { NoRadii \o NoRadii \o NoRadii,
      <<30, 20, 10, 0>> \o <<0, 0, 0, 0>> \o <<0, 0, 0, 0>>,
      <<40, 40, 40, 40>> \o <<0, 30, 0, 0>> \o <<0, 0, 0, 0>>,
      <<40, 40, 40, 40>> \o <<10, 20, 30, 20>> \o NoRadii,
      <<60, 60, 60, 60>> \o <<30, 30, 20, 30>> \o <<10, 0, 0, 30>> }

Winds == {-99, 0, 80, 90}

\* the row read_n_parse_a_storm builds for the i-th data line of a storm
RowOf(id, name, i, flag, pos, wind, radii) ==
    <<id, name, 6 * (i - 1), flag, "HU", pos, wind, -999>> \o radii
Row(i, flag, pos, wind, radii) == RowOf("AL011851", "UNNAMED", i, flag, pos, wind, radii)

\* the storms of n observations whose i-th row is Row(i, ...) of a choice in S
StormsOver(n, S, MkRow(_, _)) ==
    { [i \in 1..n |-> MkRow(i, c[i])] : c \in [1..n -> S] }

WindRow(i, w) == Row(i, "", Pos1, w, NoRadii \o NoRadii \o NoRadii)
TrackRow(i, c) == Row(i, c[3], c[1], c[2], NoRadii \o NoRadii \o NoRadii)
QuadRow(i, c) == Row(i, "", c[1], 80, c[2])
TierRow(i, c) == Row(i, "", Pos1, 80, c[1] \o c[2] \o c[3])
PosRow(i, p) == Row(i, "", p, 80, NoRadii \o NoRadii \o NoRadii)

\* the first observation of a storm, which is never classified
FirstRow == Row(1, "", Pos1, 80, <<20, 30, 30, 10>> \o <<0, 30, 0, 0>> \o <<30, 20, 10, 0>>)

FnReturned(fn) == call.fn = fn /\ ret.fn = fn

\* the variables of __main__ that the function and reader harnesses leave alone
MainVars == <<pc, storm, all_storm, storm_details_flag, summary_by_year_flag,
              single_storm_flag, lookup_ID, storm_correct, storm_total,
              storm_accuracy_rate, last, report, printed, exc>>

MainOff ==
    /\ pc = "off" /\ storm = PyNone /\ all_storm = <<>>
    /\ storm_details_flag = FALSE /\ summary_by_year_flag = FALSE
    /\ single_storm_flag = FALSE /\ lookup_ID = ""
    /\ storm_correct = 0 /\ storm_total = 0 /\ storm_accuracy_rate = PyNone
    /\ last = <<0, 0>> /\ report = PyNone /\ printed = {} /\ exc = "none"

FnInit ==
    /\ MainOff
    /\ fin = <<>> /\ fpos = 0 /\ blocks = <<>> /\ nread = 0
    /\ ret = [fn |-> "none"]
    /\ \/ \E d \in (-MaxDegree)..MaxDegree :
             call = [fn |-> "degree_normalized", degree |-> d]
       \/ \E d \in {"E", "W", "N", "S", "SE", "", "e"} :
             call = [fn |-> "flip_direction", direction |-> d]
       \/ \E la \in {"45.1N", "28.0S", "15.1"}, lo \in DOMAIN CoordTable :
             call = [fn |-> "myLatLon", lat |-> la, lon |-> lo]
       \/ \E n \in 1..MaxObs : \E s \in StormsOver(n, Winds, WindRow) :
             call = [fn |-> "get_max_wind_and_datetime", storm |-> s]
       \/ \E n \in 1..MaxObs :
             \E s \in StormsOver(n, Positions \X {-99, 80} \X {"", "L"}, TrackRow) :
             call = [fn |-> "storm_report", storm |-> s]
       \/ \E n \in 0..1 : \E s \in StormsOver(n, TierSet \X TierSet \X TierSet, TierRow) :
             call = [fn |-> "actual_quadrant", storm |-> <<FirstRow>> \o s]
       \/ \E n \in 1..MaxObs : \E s \in StormsOver(n, Positions \X RadiiSet, QuadRow) :
             call = [fn |-> "classify", storm |-> s]
       \/ \E d \in (-MaxDegree)..MaxDegree :
             call = [fn |-> "degree_2_quadrant", degree |-> d]
       \/ \E n \in 1..MaxObs : \E s \in StormsOver(n, TrackPositions, PosRow) :
             call = [fn |-> "hypothetical_quadrant", storm |-> s]

Apply(fn, result) ==
    /\ call.fn = fn
    /\ ret.fn = "none"
    /\ ret' = [fn |-> fn, val |-> result]
    /\ UNCHANGED <<call, fin, fpos, blocks, nread, MainVars>>

CallDegreeNormalized == Apply("degree_normalized", degree_normalized(call.degree))
CallFlipDirection == Apply("flip_direction", flip_direction(call.direction))
CallMyLatLon == Apply("myLatLon", myLatLon(call.lat, call.lon))
CallGetMaxWind ==
    Apply("get_max_wind_and_datetime", get_max_wind_and_datetime(call.storm))
CallStormReport == Apply("storm_report", storm_report(PyList(call.storm)))
CallActualQuadrant == Apply("actual_quadrant", actual_quadrant(call.storm))
CallClassify == Apply("classify", classify(call.storm))
CallDegree2Quadrant == Apply("degree_2_quadrant", degree_2_quadrant(call.degree))
CallHypotheticalQuadrant ==
    Apply("hypothetical_quadrant", hypothetical_quadrant(call.storm))

FnNext ==
    \/ CallDegreeNormalized
    \/ CallFlipDirection
    \/ CallMyLatLon
    \/ CallGetMaxWind
    \/ CallStormReport
    \/ CallActualQuadrant
    \/ CallClassify
    \/ CallDegree2Quadrant
    \/ CallHypotheticalQuadrant

SpecFn == FnInit /\ [][FnNext]_vars

----------------------------------------------------------------------------
(* Dataset files: well-formed storm blocks, a header and its data lines *)

StormIDs == <<"AL011851", "AL021851", "AL031851">>
TimeStr == <<"0000", "0600", "1200", "1800">>
CountStr == <<"0", "1", "2", "3">>
Samples == {"A", "C"}

\* the text of the i-th data line of a block, written from sample x
SampleText(x, i) ==
    <<"18510625", TimeStr[i]>> \o
    CASE x = "A" -> <<"", "HU", "28.0N", "94.8W", "80", "-999",
                      "-999", "-999", "-999", "-999", "-999", "-999", "-999", "-999",
                      "-999", "-999", "-999", "-999", "">>
      [] x = "C" -> <<"L", "HU", "29.0N", "265.2E", "-99", "-999",
                      "40", "40", "40", "40", "10", "20", "30", "20",
                      "-999", "-999", "-999", "-999", "">>

\* the Observation that line stands for
SampleRow(x, id, name, i) ==
    CASE x = "A" -> RowOf(id, name, i, "", Pos1, 80, NoRadii \o NoRadii \o NoRadii)
      [] x = "C" -> RowOf(id, name, i, "L", Pos2, -99,
                          <<40, 40, 40, 40>> \o <<10, 20, 30, 20>> \o NoRadii)

\* a block is the samples of its data lines, which alternate from the first
\* line on; block k has identifier StormIDs[k]
OtherSample(x) == IF x = "A" THEN "C" ELSE "A"
BlockChoices ==
    {[i \in 1..c |-> IF i % 2 = 1 THEN x ELSE OtherSample(x)] : c \in 0..MaxCount, x \in Samples}
Datasets == UNION {[1..k -> BlockChoices] : k \in 0..MaxStorms}

BlockText(b, k) ==
    <<<<StormIDs[k], "UNNAMED", CountStr[Len(b) + 1], "">>>> \o
    [i \in 1..Len(b) |-> SampleText(b[i], i)]

RECURSIVE RenderFrom(_, _)
RenderFrom(bs, k) == IF k > Len(bs) THEN <<>> ELSE BlockText(bs[k], k) \o RenderFrom(bs, k + 1)
Render(bs) == RenderFrom(bs, 1)

\* the Observations of block k, and the number of lines before its header
BlockRows(bs, k) == [i \in 1..Len(bs[k]) |-> SampleRow(bs[k][i], StormIDs[k], "UNNAMED", i)]
RECURSIVE Offset(_, _)
Offset(bs, k) == IF k <= 1 THEN 0 ELSE Offset(bs, k - 1) + 1 + Len(bs[k - 1])

\* what is typed as a storm ID: the identifiers, one of no storm, a name,
\* a status code of a data line, and nothing
Keys == {"AL011851", "AL021851", "AL031851", "AL991851", "UNNAMED", "HU", ""}

----------------------------------------------------------------------------
(* The reader applied to a stream, by sequential and lookup calls in any order *)

ParseInit ==
    /\ blocks \in Datasets
    /\ fin = Render(blocks)
    /\ fpos = 0
    /\ nread = 0
    /\ call = [fn |-> "read_n_parse_a_storm", sequential |-> TRUE]
    /\ ret = [fn |-> "none"]
    /\ MainOff

\* storm = read_n_parse_a_storm(fin)
ParseNext ==
    LET r == read_n_parse_a_storm(fin, fpos, PyNone)
    IN  /\ ret' = [fn |-> "sequential", key |-> "", from |-> fpos, val |-> r.val]
        /\ fpos' = r.pos
        /\ nread' = IF r.val.ok /\ r.val.val.kind = "list" THEN nread + 1 ELSE nread
        /\ UNCHANGED <<call, fin, blocks, MainVars>>

\* storm = read_n_parse_a_storm(fin, key)
ParseLookup ==
    \E key \in Keys :
        LET r == read_n_parse_a_storm(fin, fpos, PyStr(key))
        IN  /\ ret' = [fn |-> "lookup", key |-> key, from |-> fpos, val |-> r.val]
            /\ fpos' = r.pos
            /\ call' = [call EXCEPT !.sequential = FALSE]
            /\ UNCHANGED <<nread, fin, blocks, MainVars>>

ParseStep == ParseNext \/ ParseLookup

SpecParse == ParseInit /\ [][ParseStep]_vars

----------------------------------------------------------------------------
(* __main__ *)

\* what is typed at a yes/no prompt
Answers == {"Y", "t", "N", "f", "x", ""}

FileNotFoundMessage == "Cannot find the file requested. Please check the filename."
CheckInputMessage == "Please check the input."
InvalidIDMessage == "The storm ID is not valid."
RateMessage == "% cases support the hypothesis."

MainInit ==
    /\ blocks \in Datasets              \* the dataset file on disk
    /\ pc = "ask_details"
    /\ fin = <<>> /\ fpos = 0 /\ nread = 0
    /\ storm = PyNone /\ all_storm = <<>>
    /\ storm_details_flag = FALSE /\ summary_by_year_flag = FALSE
    /\ single_storm_flag = FALSE /\ lookup_ID = ""
    /\ storm_correct = 0 /\ storm_total = 0 /\ storm_accuracy_rate = PyNone
    /\ last = <<0, 0>> /\ report = PyNone /\ printed = {} /\ exc = "none"
    /\ call = [fn |-> "main"] /\ ret = [fn |-> "none"]

\* one round of a yes/no prompt loop at `here`: input_keyword[0] of an empty
\* answer raises IndexError, any other unknown answer asks again
AskYesNo(here, next_yes, next_no, flag, others) ==
    /\ pc = here /\ exc = "none"
    /\ \E input_keyword \in Answers :
          IF input_keyword = ""
          THEN exc' = "IndexError" /\ UNCHANGED <<pc, flag, printed>>
          ELSE IF input_keyword \in {"Y", "y", "T", "t"}
          THEN flag' = TRUE /\ pc' = next_yes /\ UNCHANGED <<printed, exc>>
          ELSE IF input_keyword \in {"N", "n", "F", "f"}
          THEN flag' = FALSE /\ pc' = next_no /\ UNCHANGED <<printed, exc>>
          ELSE /\ printed' = printed \cup {CheckInputMessage}
               /\ UNCHANGED <<pc, flag, exc>>
    /\ UNCHANGED others

AskDetails ==
    AskYesNo("ask_details", "ask_summary", "ask_summary", storm_details_flag,
             <<call, ret, fin, fpos, blocks, storm, nread, all_storm,
               summary_by_year_flag, single_storm_flag, lookup_ID, storm_correct,
               storm_total, storm_accuracy_rate, last, report>>)

AskSummary ==
    AskYesNo("ask_summary", "open_dataset", "open_dataset", summary_by_year_flag,
             <<call, ret, fin, fpos, blocks, storm, nread, all_storm,
               storm_details_flag, single_storm_flag, lookup_ID, storm_correct,
               storm_total, storm_accuracy_rate, last, report>>)

\* lines 390-396: the filename is typed and the file opened, or is not found
OpenDataset ==
    /\ pc = "open_dataset" /\ exc = "none"
    /\ storm_correct' = 0 /\ storm_total' = 0
    /\ \E found \in BOOLEAN :
          IF found
          THEN /\ fin' = Render(blocks) /\ fpos' = 0
               /\ printed' = printed \cup {"Loading... Please wait..."}
                                     \cup (IF storm_details_flag THEN {"Each Storm:"} ELSE {})
               /\ all_storm' = <<>>
               /\ pc' = "read"
          ELSE /\ printed' = printed \cup {FileNotFoundMessage}
               /\ pc' = "ask_single"
               /\ UNCHANGED <<fin, fpos, all_storm>>
    /\ UNCHANGED <<call, ret, blocks, storm, nread, storm_details_flag,
                   summary_by_year_flag, single_storm_flag, lookup_ID,
                   storm_accuracy_rate, last, report, exc>>

\* lines 398-400: the next storm is read; only FileNotFoundError is caught
ReadStorm ==
    /\ pc = "read" /\ exc = "none"
    /\ LET r == read_n_parse_a_storm(fin, fpos, PyNone)
       IN  /\ fpos' = r.pos
           /\ IF ~r.val.ok
              THEN exc' = r.val.exc /\ UNCHANGED <<pc, storm, nread>>
              ELSE /\ storm' = r.val.val
                   /\ exc' = exc
                   /\ IF r.val.val.kind = "None"
                      THEN pc' = "divide" /\ nread' = nread
                      ELSE pc' = "process" /\ nread' = nread + 1
    /\ UNCHANGED <<call, ret, fin, blocks, all_storm, storm_details_flag,
                   summary_by_year_flag, single_storm_flag, lookup_ID, storm_correct,
                   storm_total, storm_accuracy_rate, last, report, printed>>

\* lines 401-409: the storm is reported when asked for, then classified
ProcessStorm ==
    /\ pc = "process" /\ exc = "none"
    /\ LET rep == IF storm_details_flag THEN storm_report(storm) ELSE Ok(report)
           tally == classify(storm.v)
       IN  IF ~rep.ok
           THEN /\ exc' = rep.exc
                /\ UNCHANGED <<pc, all_storm, storm_correct, storm_total, last, report>>
           ELSE /\ report' = rep.val
                /\ all_storm' = all_storm \o storm.v
                /\ last' = tally
                /\ storm_correct' = storm_correct + tally[1]
                /\ storm_total' = storm_total + tally[2]
                /\ pc' = "read"
                /\ exc' = exc
    /\ UNCHANGED <<call, ret, fin, fpos, blocks, storm, nread, storm_details_flag,
                   summary_by_year_flag, single_storm_flag, lookup_ID,
                   storm_accuracy_rate, printed>>

\* lines 410-411: storm_correct / storm_total, and the percentage printed
Divide ==
    /\ pc = "divide" /\ exc = "none"
    /\ IF storm_total = 0
       THEN exc' = "ZeroDivisionError" /\ UNCHANGED <<pc, storm_accuracy_rate, printed>>
       ELSE /\ storm_accuracy_rate' = PyFrac(storm_correct, storm_total)
            /\ printed' = printed \cup {RateMessage}
            /\ pc' = "ask_single"
            /\ exc' = exc
    /\ UNCHANGED <<call, ret, fin, fpos, blocks, storm, nread, all_storm,
                   storm_details_flag, summary_by_year_flag, single_storm_flag,
                   lookup_ID, storm_correct, storm_total, last, report>>

AskSingle ==
    AskYesNo("ask_single", "lookup_open", "done", single_storm_flag,
             <<call, ret, fin, fpos, blocks, storm, nread, all_storm,
               storm_details_flag, summary_by_year_flag, lookup_ID, storm_correct,
               storm_total, storm_accuracy_rate, last, report>>)

\* lines 425-428: the filename and the storm ID are typed, the file is opened
OpenLookup ==
    /\ pc = "lookup_open" /\ exc = "none"
    /\ \E found \in BOOLEAN, key \in Keys :
          /\ lookup_ID' = key
          /\ IF found
             THEN fin' = Render(blocks) /\ fpos' = 0 /\ pc' = "lookup_read"
                  /\ printed' = printed
             ELSE /\ printed' = printed \cup {FileNotFoundMessage}
                  /\ pc' = "done"
                  /\ UNCHANGED <<fin, fpos>>
    /\ UNCHANGED <<call, ret, blocks, storm, nread, all_storm, storm_details_flag,
                   summary_by_year_flag, single_storm_flag, storm_correct,
                   storm_total, storm_accuracy_rate, last, report, exc>>

\* lines 429-434: the storm is looked up and reported; ValueError is caught
LookupStorm ==
    /\ pc = "lookup_read" /\ exc = "none"
    /\ LET r == read_n_parse_a_storm(fin, fpos, PyStr(lookup_ID))
           rep == IF r.val.ok THEN storm_report(r.val.val) ELSE r.val
       IN  /\ fpos' = r.pos
           /\ storm' = IF r.val.ok THEN r.val.val ELSE storm
           /\ IF rep.ok
              THEN /\ report' = rep.val /\ printed' = printed \cup r.printed
                   /\ pc' = "looked_up" /\ exc' = exc
              ELSE IF rep.exc = "ValueError"
              THEN /\ printed' = printed \cup r.printed \cup {InvalidIDMessage}
                   /\ pc' = "looked_up" /\ exc' = exc /\ report' = report
              ELSE /\ printed' = printed \cup r.printed
                   /\ exc' = rep.exc /\ UNCHANGED <<pc, report>>
    /\ UNCHANGED <<call, ret, fin, blocks, nread, all_storm, storm_details_flag,
                   summary_by_year_flag, single_storm_flag, lookup_ID, storm_correct,
                   storm_total, storm_accuracy_rate, last>>

MainNext ==
    \/ AskDetails
    \/ AskSummary
    \/ OpenDataset
    \/ ReadStorm
    \/ ProcessStorm
    \/ Divide
    \/ AskSingle
    \/ OpenLookup
    \/ LookupStorm

SpecMain == MainInit /\ [][MainNext]_vars

----------------------------------------------------------------------------
(* Claims about the functions, checked under SpecFn *)

\* the four extents <<NE, SE, SW, NW>> of the 34-, 50- or 64-kt tier of a row
TierOf(row, kt) ==
    CASE kt = 34 -> SubSeq(row, 9, 12)
      [] kt = 50 -> SubSeq(row, 13, 16)
      [] kt = 64 -> SubSeq(row, 17, 20)

QuadrantNames == <<"NE", "SE", "SW", "NW">>
AllIdentical(t) == \A i \in 1..4 : t[i] = t[1]
TierQualifies(t) == (\E i \in 1..4 : t[i] > 0) /\ ~AllIdentical(t)
QuadrantsOfMax(t) == {QuadrantNames[i] : i \in {j \in 1..4 : \A k \in 1..4 : t[j] >= t[k]}}

\* the answers the tiered rule 64 -> 50 -> 34 allows for a row
TieredQuadrants(row) ==
    IF TierQualifies(TierOf(row, 64)) THEN QuadrantsOfMax(TierOf(row, 64))
    ELSE IF TierQualifies(TierOf(row, 50)) THEN QuadrantsOfMax(TierOf(row, 50))
    ELSE IF TierQualifies(TierOf(row, 34)) THEN QuadrantsOfMax(TierOf(row, 34))
    ELSE {"NA"}

\* C1: every Observation from index 1 on is classified from the first tier,
\* in the order 64-kt, 50-kt, 34-kt, that has a positive extent and is not
\* all identical, and is NA only when no tier qualifies.
C1_FirstQualifyingTier ==
    FnReturned("actual_quadrant") =>
        /\ Len(ret.val) = Len(call.storm) - 1
        /\ \A i \in 1..Len(ret.val) : ret.val[i] \in TieredQuadrants(call.storm[i + 1])

\* C7: degree_normalized(d) lies in [0, 360), is congruent to d modulo 360,
\* is unchanged by adding multiples of 360 to d, and is idempotent.
C7_NormalizedRange ==
    FnReturned("degree_normalized") =>
        /\ 0 <= ret.val /\ ret.val < 360
        /\ (ret.val - call.degree) % 360 = 0
        /\ \A k \in {-2, -1, 1, 2} : degree_normalized(call.degree + 360 * k) = ret.val
        /\ degree_normalized(ret.val) = ret.val

WindOf(row) == row[7]
TimeOf(row) == row[3]
RecordedWinds(s) == {i \in 1..Len(s) : WindOf(s[i]) # -99}

\* C8: get_max_wind_and_datetime returns the maximum recorded wind and the
\* timestamp of the first Observation attaining it, and when every wind is
\* the sentinel -99 it reports no maximum for the wind and the timestamp,
\* not a wind of 0 knots.
C8_MaxWindOrNoMaximum ==
    FnReturned("get_max_wind_and_datetime") =>
        LET s == call.storm
            rec == RecordedWinds(s)
        IN  IF rec = {}
            THEN ret.val.maxwind # 0 /\ ret.val.datetime.kind = "str"
            ELSE LET first == CHOOSE i \in rec :
                                 /\ \A j \in rec : WindOf(s[i]) >= WindOf(s[j])
                                 /\ \A j \in rec : j < i => WindOf(s[j]) < WindOf(s[i])
                 IN  /\ ret.val.maxwind = WindOf(s[first])
                     /\ ret.val.datetime.kind = "datetime"
                     /\ ret.val.datetime.v = TimeOf(s[first])

\* the Observations 1..n-1 (0-based) of a storm whose actual quadrant is known
Determined(s) == {i \in 1..(Len(s) - 1) : actual_quadrant(s)[i] # "NA"}
\* those whose actual quadrant is a bound of the segment ending at them
Hits(s) ==
    {i \in Determined(s) :
        \/ actual_quadrant(s)[i] = hypothetical_quadrant(s)[1][i]
        \/ actual_quadrant(s)[i] = hypothetical_quadrant(s)[2][i]}

NormalizedLon(v, h) ==
    IF v > 1800
    THEN (IF h = "E" THEN -(3600 - v) ELSE 3600 - v)
    ELSE (IF h = "W" THEN -v ELSE v)

\* C10: for a longitude v with letter h in {E, W}, myLatLon builds the
\* position of (360 - v, the opposite letter) when v > 180 and of (v, h)
\* otherwise, with the latitude as given; so v > 180 in one hemisphere is the
\* Position of 360 - v in the other, and flipping a letter outside
\* {N, E, S, W} raises an error.
C10_LongitudeNormalized ==
    /\ FnReturned("myLatLon") /\ CoordTable[call.lon][2] \in {"E", "W"} =>
          /\ ret.val.ok
          /\ ret.val.val.lon = NormalizedLon(CoordTable[call.lon][1], CoordTable[call.lon][2])
          /\ ret.val.val.lat = Signed(call.lat)
          /\ CoordTable[call.lon][1] > 1800 =>
                ret.val.val = LatLon(call.lat,
                                     CoordStr(3600 - CoordTable[call.lon][1],
                                              IF CoordTable[call.lon][2] = "E" THEN "W" ELSE "E"))
    /\ FnReturned("flip_direction") /\ call.direction \notin {"N", "E", "S", "W"} =>
          ~ret.val.ok /\ ret.val.exc = "ValueError"

C10_Witness ==
    /\ FnReturned("myLatLon")
    /\ call.lat = "45.1N" /\ call.lon = "358.0W"
    /\ ret.val = Ok(LatLon("45.1N", "2.0E"))

\* the quadrant of a degree under [0,90) NE, [90,180) SE, [180,270) SW,
\* [270,360) NW, and NA outside [0, 360)
QuadrantOfDegree(d) ==
    IF d < 0 \/ d >= 360 THEN "NA"
    ELSE QuadrantNames[(d \div 90) + 1]

\* the bearing of segment i of a storm: 0 when its two positions coincide
SegmentBearing(s, i) ==
    IF s[i][6] = s[i + 1][6] THEN 0 ELSE bearingTo(s[i][6], s[i + 1][6]).val

\* C11: for every segment with bearing b in [0, 360) (0 when the positions
\* coincide) hypothetical_quadrant returns the quadrant of b + 45 reduced
\* modulo 360 as the lower bound and that of b + 90 as the upper bound, under
\* [0,90) NE, [90,180) SE, [180,270) SW, [270,360) NW and NA outside
\* [0, 360); so no bound is NA and a stationary segment gives NE and SE.
C11_HypotheticalBounds ==
    /\ FnReturned("hypothetical_quadrant") =>
          /\ Len(ret.val[1]) = Len(call.storm) - 1
          /\ Len(ret.val[2]) = Len(call.storm) - 1
          /\ \A i \in 1..(Len(call.storm) - 1) :
                LET b == SegmentBearing(call.storm, i)
                IN  /\ b \in 0..359
                    /\ ret.val[1][i] = QuadrantOfDegree((b + 45) % 360)
                    /\ ret.val[2][i] = QuadrantOfDegree((b + 90) % 360)
                    /\ ret.val[1][i] # "NA" /\ ret.val[2][i] # "NA"
                    /\ call.storm[i][6] = call.storm[i + 1][6] =>
                          ret.val[1][i] = "NE" /\ ret.val[2][i] = "SE"
    /\ FnReturned("degree_2_quadrant") => ret.val = QuadrantOfDegree(call.degree)
    /\ FnReturned("degree_normalized") /\ call.degree \in 45..449 =>
          /\ degree_2_quadrant(ret.val) = QuadrantOfDegree(call.degree % 360)
          /\ degree_2_quadrant(ret.val) # "NA"

C11_Witness ==
    /\ FnReturned("hypothetical_quadrant")
    /\ Len(call.storm) = 3
    /\ SegmentBearing(call.storm, 1) = 315
    /\ call.storm[2][6] = call.storm[3][6]
    /\ ret.val = << <<"NE", "NE">>, <<"NE", "SE">> >>

TierSum(t) == t[1] + t[2] + t[3] + t[4]

\* the tier a row is classified from, 0 when it is classified from none: the
\* 50-kt tier when the 64-kt extents sum to at most 0 and the 50-kt extents
\* differ, the 34-kt tier when moreover the 50-kt extents are identical and
\* sum to at most 0 and the 34-kt extents differ
SelectedTier(row) ==
    IF TierSum(TierOf(row, 64)) > 0 THEN 0
    ELSE IF ~AllIdentical(TierOf(row, 50)) THEN 50
    ELSE IF TierSum(TierOf(row, 50)) <= 0 /\ ~AllIdentical(TierOf(row, 34)) THEN 34
    ELSE 0

\* two or more quadrants of the tier attain its maximum
TiedForMax(t) == Cardinality({j \in 1..4 : \A k \in 1..4 : t[j] >= t[k]}) >= 2

\* the first quadrant, in the order given, that attains the maximum of the tier
FirstOfMax(t, order) ==
    LET best == CHOOSE n \in 1..4 :
                   /\ QuadrantNames[order[n]] \in QuadrantsOfMax(t)
                   /\ \A m \in 1..(n - 1) : QuadrantNames[order[m]] \notin QuadrantsOfMax(t)
    IN  QuadrantNames[order[best]]

\* the rows of the storm classified from a tier with a tie for the maximum
TiedRows(s) ==
    {i \in 2..Len(s) : SelectedTier(s[i]) # 0 /\ TiedForMax(TierOf(s[i], SelectedTier(s[i])))}

\* C12 as stated: a tie for the maximum extent of the selected tier is
\* resolved with priority NW > SW > SE > NE.
C12_TieFromNW ==
    FnReturned("actual_quadrant") =>
        \A i \in TiedRows(call.storm) :
            ret.val[i - 1] = FirstOfMax(TierOf(call.storm[i], SelectedTier(call.storm[i])),
                                        <<4, 3, 2, 1>>)

\* C12, amended: a tie for the maximum extent of the selected tier is
\* resolved with priority NE > SE > SW > NW: the quadrant returned is NE if NE
\* attains the maximum, else SE, else SW, else NW.
C12_TieFromNE ==
    FnReturned("actual_quadrant") =>
        \A i \in TiedRows(call.storm) :
            ret.val[i - 1] = FirstOfMax(TierOf(call.storm[i], SelectedTier(call.storm[i])),
                                        <<1, 2, 3, 4>>)

C12_Witness ==
    /\ FnReturned("actual_quadrant")
    /\ Len(call.storm) = 2
    /\ TierOf(call.storm[2], 64) = <<0, 0, 0, 0>>
    /\ TierOf(call.storm[2], 50) = <<20, 30, 30, 10>>
    /\ ret.val = <<"SE">>

----------------------------------------------------------------------------
(* Claims about the reader, checked under SpecParse *)

ReturnedNone(r) == r.val.ok /\ r.val.val.kind = "None"
ReturnedStorm(r) == r.val.ok /\ r.val.val.kind = "list"

\* C5: over a stream of K well-formed blocks the k-th sequential call consumes
\* the 1 + c_k lines of block k and returns its c_k Observations in line
\* order under the k-th header's identifier and name, and the (K+1)-th call
\* returns None: no storm is skipped, repeated or split.
C5_SequentialBlocks ==
    call.sequential /\ ret.fn = "sequential" =>
        IF ret.from < Len(fin)
        THEN /\ ReturnedStorm(ret)
             /\ nread \in 1..Len(blocks)
             /\ ret.from = Offset(blocks, nread)
             /\ fpos = ret.from + 1 + Len(blocks[nread])
             /\ ret.val.val.v = BlockRows(blocks, nread)
        ELSE /\ ReturnedNone(ret)
             /\ nread = Len(blocks)
             /\ fpos = Len(fin)

C5_Witness ==
    /\ call.sequential /\ ret.fn = "sequential"
    /\ nread = 2 /\ ReturnedStorm(ret)
    /\ Len(ret.val.val.v) = 2
    /\ ret.val.val.v[1][1] = "AL021851"

\* a line of the stream holds the key: in one of its fields, or the key is empty
LineHas(line, key) == key = "" \/ key \in {line[i] : i \in 1..Len(line)}
\* the lines after position `from` that contain the key
Matching(from, key) == {j \in (from + 1)..Len(fin) : LineHas(fin[j], key)}
FirstMatching(from, key) ==
    CHOOSE j \in Matching(from, key) : \A k \in Matching(from, key) : j <= k
\* the 1-based positions of the header lines of the stream
HeaderLines == {Offset(blocks, k) + 1 : k \in 1..Len(blocks)}

\* C6 as stated: a lookup returns, for the first line containing id from the
\* current position on, a Storm of the count declared on that line, and
\* returns None exactly when no such line exists.
C6_FirstLineIsHeader ==
    ret.fn = "lookup" =>
        IF Matching(ret.from, ret.key) = {}
        THEN ReturnedNone(ret)
        ELSE LET first == FirstMatching(ret.from, ret.key)
             IN  /\ ReturnedStorm(ret)
                 /\ int(fin[first][3]).ok
                 /\ Len(ret.val.val.v) = int(fin[first][3]).val

\* C6, amended: for a non-empty id a lookup returns None exactly when no line
\* from the current position on contains id; otherwise, when the first such
\* line is a header it returns a Storm of the count declared there and stops
\* after its last data line, and when that line is a data line it raises
\* ValueError.
C6_LookupFirstMatch ==
    ret.fn = "lookup" /\ ret.key # "" =>
        /\ ReturnedNone(ret) <=> Matching(ret.from, ret.key) = {}
        /\ Matching(ret.from, ret.key) # {} =>
              LET first == FirstMatching(ret.from, ret.key)
              IN  IF first \in HeaderLines
                  THEN /\ ReturnedStorm(ret)
                       /\ Len(ret.val.val.v) = int(fin[first][3]).val
                       /\ fpos = first + Len(ret.val.val.v)
                  ELSE ~ret.val.ok /\ ret.val.exc = "ValueError"

C6_Witness ==
    /\ ret.fn = "lookup" /\ ret.key = "UNNAMED"
    /\ ret.from > 0
    /\ ReturnedStorm(ret)
    /\ Len(ret.val.val.v) = 2
    /\ fpos = Len(fin)

----------------------------------------------------------------------------
(* Claims about __main__, checked under SpecMain *)

\* C3: the dataset accuracy is computed without a division by zero, whatever
\* the storms folded: with an accumulated total of 0 it is reported as
\* unavailable and no arithmetic fault is raised.
C3_NoDivisionByZero ==
    pc = "divide" /\ storm_total = 0 => exc # "ZeroDivisionError"

\* the single-storm flow has looked the typed storm ID up in the opened file
LookedUp == pc = "looked_up" \/ (pc = "lookup_read" /\ exc # "none")

\* C4: when the requested storm identifier occurs in no line of the stream,
\* the single-storm flow prints the diagnostic and ends normally, with no
\* uncaught exception.
C4_NotFoundIsNoCrash ==
    LookedUp /\ lookup_ID # "" /\ Matching(0, lookup_ID) = {} =>
        exc = "none" /\ NotFoundMessage \in printed

====
